---------------------------- MODULE Spec2Model ----------------------------
(***************************************************************************)
(* A model of the abstract-integers crate (src/src/lib.rs).                *)
(*                                                                         *)
(* define_abstract_integer_checked!(T, bits) generates a natural-number    *)
(* type T stored in a big-endian byte array of (bits + 7) / 8 bytes, with  *)
(* checked arithmetic.  define_refined_modular_integer!(R, T, max)         *)
(* generates a type R wrapping one T value, with arithmetic modulo max.    *)
(* Every failure of the crate is a panic; an operation is modelled as an   *)
(* operator returning an outcome [err, val], err being "None" on a normal  *)
(* return and the kind of panic otherwise.                                 *)
(*                                                                         *)
(* The state machine is a client program that owns two variables a and b   *)
(* of one generated type, both starting at from_literal(0), and repeatedly *)
(* rebinds a or b with from_literal, rebinds b with another constructor,   *)
(* or executes  a = a op b.  A panic aborts the program.                   *)
(***************************************************************************)
EXTENDS Integers, Sequences, FiniteSets

VARIABLES
    kind,       \* which macro generated the type of a and b: "checked" or "refined"
    bits,       \* $bits of the checked type (the base type, when kind = "refined")
    modulus,    \* $max of the refined type, a value of the base type
    a,          \* the program's first variable
    b,          \* the program's second variable
    last        \* the operation executed last: its name, inputs and outcome

vars == <<kind, bits, modulus, a, b, last>>

---------------------------------------------------------------------------
(* Bounds of the model. *)

\* Literals, magnitudes and pow2 exponents are drawn around the powers of two
\* 2^0 .. 2^MaxExp, at distance at most Delta, and from 0 .. SmallLit.
MaxExp == 9
Delta == 1
SmallLit == 6
\* Hexadecimal strings have at most MaxHexLen characters.
MaxHexLen == 2

---------------------------------------------------------------------------
(* The big-integer engine (num::BigUint), as far as the crate uses it. *)

\* One u8 of the byte array.
ByteBase == 256

RECURSIVE to_bytes_be(_)
\* BigUint::to_bytes_be: the big-endian base-256 digits, without leading
\* zeros; zero is the single byte 0.
to_bytes_be(n) ==
    IF n < ByteBase THEN <<n>>
    ELSE Append(to_bytes_be(n \div ByteBase), n % ByteBase)

RECURSIVE from_bytes_be(_)
\* BigUint::from_bytes_be: the magnitude of a big-endian byte sequence.
from_bytes_be(s) ==
    IF Len(s) = 0 THEN 0
    ELSE from_bytes_be(SubSeq(s, 1, Len(s) - 1)) * ByteBase + s[Len(s)]

\* BigUint::from(c).shl(k)
shl(c, k) == c * 2^k

\* The characters hexadecimal strings are made of; "z" is not a digit.
HexChars == {"0", "f", "z"}

\* char::to_digit(16)
HexDigit(c) == CASE c = "0" -> 0 [] c = "f" -> 15 [] OTHER -> 16

RECURSIVE HexValue(_)
HexValue(s) ==
    IF Len(s) = 0 THEN 0
    ELSE HexValue(SubSeq(s, 1, Len(s) - 1)) * 16 + HexDigit(s[Len(s)])

\* BigUint::from_str_radix(x, 16): an error on the empty string and on a
\* character that is not a hexadecimal digit.
from_str_radix(s) ==
    IF Len(s) = 0 \/ \E i \in 1..Len(s) : HexDigit(s[i]) >= 16
    THEN [err |-> "ParseError", val |-> 0]
    ELSE [err |-> "None", val |-> HexValue(s)]

---------------------------------------------------------------------------
(* Outcomes. *)

Ok(v) == [err |-> "None", val |-> v]

\* panic!(...): "OutOfRange" is "literal too big for type", "StorageTooNarrow"
\* is "BigUint too big for type", "Overflow" is "bounded addition overflow",
\* "Underflow" is "bounded substraction underflow", "DivisionByZero" is
\* "dividing by zero in type", "ParseError" is "string is not a valid hex number".
Panic(e) == [err |-> e, val |-> <<>>]

---------------------------------------------------------------------------
(* define_abstract_integer_checked!($name, $bits) *)

\* The length of the byte array, ($bits + 7) / 8.
NBytes(bts) == (bts + 7) \div 8

Zeros(n) == [i \in 1..n |-> 0]

\* impl From<BigUint> for $name
checked_from(bts, x) ==
    LET repr == to_bytes_be(x)
        upper == NBytes(bts)
    IN  IF Len(repr) > upper THEN Panic("StorageTooNarrow")
        ELSE Ok(Zeros(upper - Len(repr)) \o repr)

\* impl Into<BigUint> for $name
checked_into(t) == from_bytes_be(t)

\* $name::max()
checked_max(bts) == shl(2, bts)

\* $name::from_literal
checked_from_literal(bts, x) ==
    IF x > checked_max(bts) THEN Panic("OutOfRange")
    ELSE checked_from(bts, x)

\* $name::from_hex
checked_from_hex(bts, s) ==
    LET big_x == from_str_radix(s)
    IN  IF big_x.err # "None" THEN Panic("ParseError")
        ELSE IF big_x.val > checked_max(bts) THEN Panic("OutOfRange")
        ELSE checked_from(bts, big_x.val)

\* $name::pow2
checked_pow2(bts, x) == checked_from(bts, shl(1, x))

\* impl Add for $name
checked_add(bts, x, y) ==
    LET c == checked_into(x) + checked_into(y)
    IN  IF c > checked_max(bts) THEN Panic("Overflow")
        ELSE checked_from(bts, c)

\* A subtraction that returns the distance of its operands instead of
\* panicking on underflow.
checked_sub_wrapping(bts, x, y) ==
    LET c == checked_into(x) - checked_into(y)
    IN  checked_from(bts, IF c < 0 THEN -c ELSE c)

\* impl Sub for $name
checked_sub(bts, x, y) ==
    LET c == checked_into(x) - checked_into(y)
    IN  IF c < 0 THEN Panic("Underflow")
        ELSE checked_from(bts, c)

\* impl Mul for $name
checked_mul(bts, x, y) ==
    LET c == checked_into(x) * checked_into(y)
    IN  IF c > checked_max(bts) THEN Panic("Overflow")
        ELSE checked_from(bts, c)

\* A division without the test of the divisor, the quotient by zero being
\* the dividend.
checked_div_unguarded(bts, x, y) ==
    IF checked_into(y) = 0 THEN Ok(x)
    ELSE checked_from(bts, checked_into(x) \div checked_into(y))

\* impl Div for $name
checked_div(bts, x, y) ==
    IF checked_into(y) = 0 THEN Panic("DivisionByZero")
    ELSE checked_from(bts, checked_into(x) \div checked_into(y))

\* impl Rem for $name
checked_rem(bts, x, y) ==
    IF checked_into(y) = 0 THEN Panic("DivisionByZero")
    ELSE checked_from(bts, checked_into(x) % checked_into(y))

\* impl PartialOrd for $name, as used by  b > a
checked_gt(x, y) == checked_into(x) > checked_into(y)

---------------------------------------------------------------------------
(* define_refined_modular_integer!($name, $base, $max) *)
(* A value of the refined type is the tuple struct $name($base).          *)

\* impl From<$base> for $name
refined_from(t) == <<t>>

\* impl Into<$base> for $name
refined_into(r) == r[1]

\* The outcome of a base-type computation, wrapped:  d.into()
Wrap(o) == IF o.err # "None" THEN o ELSE Ok(refined_from(o.val))

\* $name::max()
refined_max(max) == max

\* $name::from_literal
refined_from_literal(bts, max, x) ==
    IF x > checked_into(refined_max(max)) THEN Panic("OutOfRange")
    ELSE Wrap(checked_from(bts, x))

\* An addition that forgets the reduction modulo $max.
refined_add_unreduced(bts, max, x, y) ==
    Wrap(checked_add(bts, refined_into(x), refined_into(y)))

\* impl Add for $name
refined_add(bts, max, x, y) ==
    LET c == checked_add(bts, refined_into(x), refined_into(y))
    IN  IF c.err # "None" THEN c
        ELSE Wrap(checked_rem(bts, c.val, max))

\* A subtraction whose wrapping branch forgets the modulus.
refined_sub_unwrapped(bts, max, x, y) ==
    LET l == refined_into(x)
        r == refined_into(y)
    IN  IF checked_gt(r, l) THEN Wrap(checked_sub(bts, r, l))
        ELSE Wrap(checked_sub(bts, r, l))

\* impl Sub for $name:  if b > a { $max - b + a } else { b - a }
refined_sub(bts, max, x, y) ==
    LET l == refined_into(x)
        r == refined_into(y)
    IN  IF checked_gt(r, l)
        THEN LET d == checked_sub(bts, max, r)
             IN  IF d.err # "None" THEN d
                 ELSE Wrap(checked_add(bts, d.val, l))
        ELSE Wrap(checked_sub(bts, r, l))

\* impl Mul for $name
refined_mul(bts, max, x, y) ==
    LET c == checked_mul(bts, refined_into(x), refined_into(y))
    IN  IF c.err # "None" THEN c
        ELSE Wrap(checked_rem(bts, c.val, max))

\* impl Div for $name
refined_div(bts, max, x, y) ==
    Wrap(checked_div(bts, refined_into(x), refined_into(y)))

\* impl Rem for $name
refined_rem(bts, max, x, y) ==
    Wrap(checked_rem(bts, refined_into(x), refined_into(y)))

---------------------------------------------------------------------------
(* The client program. *)

\* The widths $bits the checked macro is instantiated with: one that fills
\* its byte array and one that does not.
Widths == {4, 8}

\* The pairs <<$bits of $base, magnitude of $max>> the refined macro is
\* instantiated with: pow2(3) - 1, pow2(7) - 19 and 255, after the crate's
\* SizeNatFieldExample (pow2(61) - 1), Felem (pow2(255) - 19) and
\* SmallModular (255).
RefinedTypes == {<<4, 7>>, <<8, 109>>, <<8, 255>>}

\* The magnitude of a value of the program's type.
Mag(v) == IF kind = "refined" THEN checked_into(refined_into(v)) ELSE checked_into(v)

\* The magnitude of $max.
M == checked_into(modulus)

NearPow2 == {n \in {2^k + d : k \in 0..MaxExp, d \in (0 - Delta)..Delta} : n >= 0}

\* The u128 literals and BigUint magnitudes the program uses.
Literals ==
    (0..SmallLit) \cup NearPow2
        \cup (IF kind = "refined" THEN {n \in (M - Delta)..(M + Delta) : n >= 0} ELSE {})

HexStrings == UNION {[1..n -> HexChars] : n \in 0..MaxHexLen}

NoOp == [op |-> "none", lhs |-> <<>>, rhs |-> <<>>, lit |-> 0, hex |-> <<>>,
         err |-> "None", val |-> <<>>]

Running == last.err = "None"

\* A variable after the panic that unwinds the program.
Dropped == <<>>

\* dst = <outcome>;  a panic unwinds the program and drops both variables.
Bind(dst, o) ==
    /\ a' = IF o.err # "None" THEN Dropped ELSE IF dst = "a" THEN o.val ELSE a
    /\ b' = IF o.err # "None" THEN Dropped ELSE IF dst = "b" THEN o.val ELSE b

\* The program's type is generated, by one macro or the other, and a and b
\* are bound to from_literal(0).  A checked type has no $max: modulus is
\* not read when kind = "checked".
Init ==
    /\ \/ /\ kind = "checked"
          /\ bits \in Widths
          /\ modulus = Zeros(NBytes(bits))
       \/ /\ kind = "refined"
          /\ \E t \in RefinedTypes :
                /\ bits = t[1]
                /\ modulus = checked_from(t[1], t[2]).val
    /\ a = IF kind = "refined" THEN refined_from(Zeros(NBytes(bits))) ELSE Zeros(NBytes(bits))
    /\ b = a
    /\ last = NoOp

\* a = $name::from_literal(x)  or  b = $name::from_literal(x)
FromLiteral ==
    /\ Running
    /\ \E dst \in {"a", "b"}, x \in Literals :
          LET o == IF kind = "refined" THEN refined_from_literal(bits, modulus, x)
                   ELSE checked_from_literal(bits, x)
          IN  /\ last' = [NoOp EXCEPT !.op = "from_literal", !.lit = x,
                                      !.err = o.err, !.val = o.val]
              /\ Bind(dst, o)
    /\ UNCHANGED <<kind, bits, modulus>>

\* b = $name::from_hex(s)
FromHex ==
    /\ Running
    /\ kind = "checked"
    /\ \E s \in HexStrings :
          LET o == checked_from_hex(bits, s)
          IN  /\ last' = [NoOp EXCEPT !.op = "from_hex", !.hex = s,
                                      !.err = o.err, !.val = o.val]
              /\ Bind("b", o)
    /\ UNCHANGED <<kind, bits, modulus>>

\* b = $name::pow2(x)
Pow2 ==
    /\ Running
    /\ kind = "checked"
    /\ \E x \in 0..MaxExp :
          LET o == checked_pow2(bits, x)
          IN  /\ last' = [NoOp EXCEPT !.op = "pow2", !.lit = x,
                                      !.err = o.err, !.val = o.val]
              /\ Bind("b", o)
    /\ UNCHANGED <<kind, bits, modulus>>

\* b = x.into(), x a BigUint
FromBigUint ==
    /\ Running
    /\ kind = "checked"
    /\ \E x \in Literals :
          LET o == checked_from(bits, x)
          IN  /\ last' = [NoOp EXCEPT !.op = "from", !.lit = x,
                                      !.err = o.err, !.val = o.val]
              /\ Bind("b", o)
    /\ UNCHANGED <<kind, bits, modulus>>

\* a = a op b
BinOp(name, o) ==
    /\ Running
    /\ last' = [NoOp EXCEPT !.op = name, !.lhs = a, !.rhs = b,
                            !.err = o.err, !.val = o.val]
    /\ Bind("a", o)
    /\ UNCHANGED <<kind, bits, modulus>>

Add == BinOp("add", IF kind = "refined" THEN refined_add(bits, modulus, a, b)
                    ELSE checked_add(bits, a, b))

Sub == BinOp("sub", IF kind = "refined" THEN refined_sub(bits, modulus, a, b)
                    ELSE checked_sub(bits, a, b))

Mul == BinOp("mul", IF kind = "refined" THEN refined_mul(bits, modulus, a, b)
                    ELSE checked_mul(bits, a, b))

Div == BinOp("div", IF kind = "refined" THEN refined_div(bits, modulus, a, b)
                    ELSE checked_div(bits, a, b))

Rem == BinOp("rem", IF kind = "refined" THEN refined_rem(bits, modulus, a, b)
                    ELSE checked_rem(bits, a, b))

Next ==
    \/ FromLiteral
    \/ FromHex
    \/ Pow2
    \/ FromBigUint
    \/ Add
    \/ Sub
    \/ Mul
    \/ Div
    \/ Rem

Spec == Init /\ [][Next]_vars

---------------------------------------------------------------------------
(* The claims.  L and R are the magnitudes of the operands of the binary   *)
(* operation executed last, Res the magnitude it returned.                 *)

L == Mag(last.lhs)
R == Mag(last.rhs)
Res == Mag(last.val)
Returned == last.err = "None"
Checked(o) == kind = "checked" /\ last.op = o
Refined(o) == kind = "refined" /\ last.op = o

\* C1: on a refined type with modulus m, a - b returns a - b when a >= b and
\* m - b + a when a < b.
C1_RefinedSubWraps ==
    Refined("sub") =>
        /\ Returned
        /\ Res = IF L >= R THEN L - R ELSE M - R + L

\* C2: on a refined type with modulus m, a + b of operands in [0, m] returns
\* without failing and equals from_literal((a + b) mod m).
C2_RefinedAddWraps ==
    (Refined("add") /\ L <= M /\ R <= M) =>
        /\ Returned
        /\ last.val = refined_from_literal(bits, modulus, (L + R) % M).val

\* C3: on a refined type with modulus m, a * b of operands in [0, m) returns
\* (a * b) mod m, also when a * b is more than the base type can hold.
C3_RefinedMulWraps ==
    (Refined("mul") /\ L < M /\ R < M) =>
        /\ Returned
        /\ Res = (L * R) % M

\* C4: on a checked type T, a + b returns a value of magnitude a + b when
\* a + b <= T.max() and fails with Overflow when a + b > T.max().
C4_CheckedAdd ==
    Checked("add") =>
        IF L + R <= checked_max(bits)
        THEN Returned /\ Res = L + R
        ELSE last.err = "Overflow"

\* C5: under both disciplines, / and % fail with DivisionByZero on a zero
\* divisor; otherwise a / b returns floor(a / b) and a % b returns a mod b,
\* which is in [0, b), with no modular reduction.
C5_DivRem ==
    (last.op \in {"div", "rem"}) =>
        IF R = 0 THEN last.err = "DivisionByZero"
        ELSE /\ Returned
             /\ last.op = "div" => Res * R <= L /\ L < (Res + 1) * R
             /\ last.op = "rem" => Res = L - (L \div R) * R /\ 0 <= Res /\ Res < R

\* A refined division by from_literal(0) has panicked.
C5_Witness ==
    /\ Refined("div")
    /\ R = 0
    /\ last.err = "DivisionByZero"

\* C6: on a checked type T, from_literal(x) succeeds for every x <= T.max(),
\* the result converting back to the magnitude x, and fails only when
\* x > T.max().
C6_LiteralRoundTrip ==
    Checked("from_literal") =>
        IF last.lit <= checked_max(bits)
        THEN Returned /\ checked_into(last.val) = last.lit
        ELSE ~Returned

\* C7, as claimed: every value of a refined type with modulus m that
\* from_literal and + - * / % produce has a magnitude in [0, m).
C7_RefinedBelowModulus ==
    (kind = "refined" /\ Running) => Mag(a) < M /\ Mag(b) < M

\* C7, amended: every such value has a magnitude in [0, m], and the values
\* + - * return are in [0, m).
C7_RefinedAtMostModulus ==
    (kind = "refined" /\ Running) =>
        /\ Mag(a) <= M
        /\ Mag(b) <= M
        /\ last.op \in {"add", "sub", "mul"} => Res < M

\* from_literal(m) has returned the value of magnitude m.
C7_Witness ==
    /\ Refined("from_literal")
    /\ Returned
    /\ last.lit = M
    /\ Mag(b) = M

\* The exact result of the constructor or operator executed last.
Exact ==
    CASE last.op \in {"from_literal", "from"} -> last.lit
      [] last.op = "from_hex" -> from_str_radix(last.hex).val
      [] last.op = "pow2" -> 2^last.lit
      [] last.op = "add" -> L + R
      [] last.op = "mul" -> L * R
      [] OTHER -> 0

\* C8: every value of a checked type T that its constructors, the conversion
\* from a magnitude and + - * / % produce has a magnitude of at most T.max(),
\* and an operation whose exact result exceeds T.max() fails.
C8_CheckedBound ==
    kind = "checked" =>
        /\ Running => Mag(a) <= checked_max(bits) /\ Mag(b) <= checked_max(bits)
        /\ Exact > checked_max(bits) => ~Returned

\* C9: on a checked type, a - b fails with Underflow whenever b > a and
\* returns a value of magnitude a - b whenever b <= a.
C9_CheckedSub ==
    Checked("sub") =>
        IF R > L THEN last.err = "Underflow"
        ELSE Returned /\ Res = L - R

\* A checked subtraction of a larger value has panicked.
C9_Witness ==
    /\ Checked("sub")
    /\ R > L
    /\ last.err = "Underflow"

\* C10: on a refined type with modulus m, whenever a - b of operands in
\* [0, m] returns a value, the value is congruent to a - b modulo m and lies
\* in [0, m).
C10_RefinedSubFailStop ==
    (Refined("sub") /\ L <= M /\ R <= M /\ Returned) =>
        /\ (Res - (L - R)) % M = 0
        /\ 0 <= Res
        /\ Res < M

\* A refined subtraction of a larger value has returned, wrapped at m.
C10_Witness ==
    /\ Refined("sub")
    /\ Returned
    /\ L < R
    /\ Res = M - R + L

=============================================================================
